---- MODULE Spec2Model ----
(***************************************************************************)
(* Model of VehicleTracking.ino (TraLog shield example): setup(), loop(),  *)
(* processGps(), processGsm() and processLog().                            *)
(*                                                                         *)
(* The sketch is single threaded.  pc is the position of the one thread of *)
(* control; every action is one statement (or one straight-line group of   *)
(* statements) of the sketch.  The collaborators (WISMO228, TinyGPS, SD,   *)
(* SoftwareSerial) are the environment: each call's outcome is drawn       *)
(* nondeterministically.                                                   *)
(*                                                                         *)
(* millis() and `scheduler` are unsigned long, 32 bits wide on the AVR.    *)
(* A 32-bit value is kept as two 16-bit limbs <<hi, lo>> so that the       *)
(* arithmetic modulo 2^32 is exact.                                        *)
(***************************************************************************)
EXTENDS Integers, Sequences, FiniteSets, TLC

\* ------------------------------------------------------------------------
\* unsigned long arithmetic (32 bit, two 16-bit limbs)
\* ------------------------------------------------------------------------
Limb == 65536

U32(n) == <<(n \div Limb) % Limb, n % Limb>>

ZeroU32 == <<0, 0>>

MaxU32 == <<Limb - 1, Limb - 1>>

\* a + b modulo 2^32
AddU32(a, b) ==
  LET lo == a[2] + b[2]
      hi == a[1] + b[1] + (lo \div Limb)
  IN  <<hi % Limb, lo % Limb>>

\* a - b modulo 2^32
SubU32(a, b) ==
  LET lo == a[2] - b[2]
      borrow == IF lo < 0 THEN 1 ELSE 0
      hi == a[1] - b[1] - borrow
  IN  <<(hi + 2 * Limb) % Limb, (lo + Limb) % Limb>>

\* unsigned comparisons
LtU32(a, b) == a[1] < b[1] \/ (a[1] = b[1] /\ a[2] < b[2])

GtU32(a, b) == LtU32(b, a)

GeU32(a, b) == ~LtU32(a, b)

\* ------------------------------------------------------------------------
\* program constants
\* ------------------------------------------------------------------------
LOG_INTERVAL == 60000

GPS_TIMEOUT == 2000

\* TinyGPS::GPS_INVALID_F_ANGLE (1000.0), in units of 1e-4 degree
GPS_INVALID_F_ANGLE == 10000000

\* ------------------------------------------------------------------------
\* bounds of the model
\* ------------------------------------------------------------------------
\* evaluations of the scheduler condition (line 171) in a run
MaxPolls == 3

\* cycles (firings of the trigger) in a run
MaxCycles == 2

\* characters read from the GPS channel in a run
MaxFeed == 2

\* ------------------------------------------------------------------------
\* environment inputs
\* ------------------------------------------------------------------------
\* value of millis() when setup() starts: zero, and a value that puts the
\* first deadlines next to the wrap of the counter at 2^32. From the second
\* the first trigger fires at 2^32 - LOG_INTERVAL - 1, and line 173 sets
\* the deadline to 2^32 - 1 or, read a millisecond later, to 0
BootTimes ==
  { ZeroU32,
    SubU32(ZeroU32, U32(2 * LOG_INTERVAL + 2)) }

\* milliseconds between one evaluation of line 171 and the next one the
\* model takes
IdleSteps == {1, LOG_INTERVAL}

\* milliseconds that pass between the reads of millis() at lines 171 and 173
ReadSkew == {0, 1}

\* milliseconds that a call into the modem library or the SD library takes
CallSteps == {GPS_TIMEOUT \div 2}

\* milliseconds for which the GPS channel stays silent, or keeps having a
\* character available, from one poll of ss.available() on
GpsSteps == {GPS_TIMEOUT \div 2, GPS_TIMEOUT}

\* positions <<lat, lon>> the parser can hold after a validated sentence
\* (1e-4 degree); either coordinate may be the "no fix" sentinel
Fixes ==
  { <<15000, 1037500>>,
    <<-123456, GPS_INVALID_F_ANGLE>>,
    <<GPS_INVALID_F_ANGLE, -1800000>> }

NoFix == <<GPS_INVALID_F_ANGLE, GPS_INVALID_F_ANGLE>>

\* calls counted per cycle
Ops == {"encode", "powerUp", "getClock", "position", "openGPRS", "putHttp",
        "closeGPRS", "shutdown", "sdOpen", "logPrint", "logClose"}

NoCalls == [o \in Ops |-> 0]

None == <<>>

VARIABLES
  pc,          \* position of the thread of control
  now,         \* millis(), 32 bit
  scheduler,   \* unsigned long scheduler (line 109)
  start,       \* local `start` of processGps (line 202)
  newGpsData,  \* boolean newGpsData (line 110)
  gpsOpen,     \* ss between begin() and end()
  radioOn,     \* wismo between powerUp() and shutdown()
  logOpen,     \* logFile between SD.open() and close()
  gpsPos,      \* position held by the TinyGPS object
  clock,       \* char clock[] (line 107): where its content was read
  written,     \* record printed to log.txt in this cycle
  fixCount,    \* sentences validated so far by this call of processGps
  payload,     \* what processGsm rendered into coordinate and data, kept
               \* until processGsm returns
  cycles,      \* number of trigger firings so far
  polls,       \* evaluations of line 171 so far
  fed,         \* characters read from the GPS channel so far
  ssAvail,     \* result of the last ss.available()
  calls,       \* calls made in the current cycle, per operation
  outcome,     \* results of the current cycle's calls
  armedAt,     \* millis() read when scheduler was last set, None if never
  lastPoll,    \* the last evaluation of line 171
  gpsDone,     \* what this cycle's processGps returned with
  gsmRead,     \* position read at line 246 in this cycle
  logRead      \* position read at line 317 in this cycle

vars == <<pc, now, scheduler, start, newGpsData, gpsOpen, radioOn, logOpen,
          gpsPos, clock, written, cycles, polls, fed, ssAvail, calls,
          outcome, armedAt, lastPoll, gpsDone, gsmRead, logRead, payload,
          fixCount>>

timeVars == <<now, scheduler, start, armedAt, lastPoll>>
schedVars == <<scheduler, start, armedAt, lastPoll>>
resVars == <<gpsOpen, radioOn, logOpen>>
obsVars == <<cycles, polls, fed, ssAvail, gpsDone, gsmRead, logRead, payload,
             fixCount>>

\* the values millis() can have after a call that took one of the durations
After(steps) == {AddU32(now, U32(d)) : d \in steps}

NoOutcome == [encode |-> "none", powerUp |-> "none", getClock |-> "none",
              openGPRS |-> "none", putHttp |-> "none", closeGPRS |-> "none",
              sdOpen |-> "none"]

Count(o) == [calls EXCEPT ![o] = @ + 1]

Result(b) == IF b THEN "ok" ELSE "fail"

\* ------------------------------------------------------------------------
\* state after construction of the globals (lines 98-110)
\* ------------------------------------------------------------------------
Init ==
  /\ pc = "setup"
  /\ now \in BootTimes
  /\ scheduler = ZeroU32
  /\ start = ZeroU32
  /\ newGpsData = FALSE
  /\ gpsOpen = FALSE
  /\ radioOn = FALSE
  /\ logOpen = FALSE
  /\ gpsPos = NoFix
  /\ clock = <<"empty">>
  /\ written = None
  /\ payload = None
  /\ fixCount = 0
  /\ cycles = 0
  /\ polls = 0
  /\ fed = 0
  /\ ssAvail = FALSE
  /\ calls = NoCalls
  /\ outcome = NoOutcome
  /\ armedAt = None
  /\ lastPoll = None
  /\ gpsDone = None
  /\ gsmRead = None
  /\ logRead = None

\* ------------------------------------------------------------------------
\* setup()
\* ------------------------------------------------------------------------
\* SD.begin(sdCsPin); on failure setup() returns and loop() starts with the
\* globals as constructed; on success wismo.init()
SetupSdBegin ==
  /\ pc = "setup"
  /\ \E ok \in BOOLEAN :
       pc' = IF ok THEN "setup_powerUp" ELSE "loop"
  /\ UNCHANGED <<timeVars, resVars, obsVars, newGpsData, gpsPos, clock,
                 written, calls, outcome>>

\* wismo.powerUp(): a failed power-up sequence leaves the module in either
\* power state
SetupPowerUp ==
  /\ pc = "setup_powerUp"
  /\ \E ok \in BOOLEAN, on \in BOOLEAN :
       /\ ok => on
       /\ radioOn' = on
       /\ pc' = IF ok THEN "setup_setClock" ELSE "setup_shutdown"
  /\ UNCHANGED <<timeVars, gpsOpen, logOpen, obsVars, newGpsData, gpsPos,
                 clock, written, calls, outcome>>

\* wismo.setClock(newClock)
SetupSetClock ==
  /\ pc = "setup_setClock"
  /\ \E ok \in BOOLEAN :
       pc' = IF ok THEN "setup_getClock" ELSE "setup_shutdown"
  /\ UNCHANGED <<timeVars, resVars, obsVars, newGpsData, gpsPos, clock,
                 written, calls, outcome>>

\* wismo.getClock(clock)
SetupGetClock ==
  /\ pc = "setup_getClock"
  /\ \E ok \in BOOLEAN :
       clock' = IF ok THEN <<"setup">> ELSE clock
  /\ pc' = "setup_shutdown"
  /\ UNCHANGED <<timeVars, resVars, obsVars, newGpsData, gpsPos, written,
                 calls, outcome>>

\* wismo.shutdown(); scheduler = millis() + LOG_INTERVAL
SetupShutdown ==
  /\ pc = "setup_shutdown"
  /\ radioOn' = FALSE
  /\ scheduler' = AddU32(now, U32(LOG_INTERVAL))
  /\ armedAt' = now
  /\ pc' = "loop"
  /\ UNCHANGED <<now, start, lastPoll, gpsOpen, logOpen, obsVars, newGpsData,
                 gpsPos, clock, written, calls, outcome>>

\* ------------------------------------------------------------------------
\* loop()
\* ------------------------------------------------------------------------
\* line 171 with >= for >
TickFiresGe(t, due) == GeU32(t, due)

\* the condition of line 171, for t the value millis() returned
TickFires(t, due) == GtU32(t, due)

\* line 173 with the deadline advanced from the previous deadline
RearmFromDue(t, due) == AddU32(due, U32(LOG_INTERVAL))

\* the deadline set at line 173, for t the value millis() returned there
Rearm(t, due) == AddU32(t, U32(LOG_INTERVAL))

\* loop() evaluates line 171 on every iteration, about once a millisecond,
\* so no evaluation that holds is passed over: the next evaluation the model
\* takes after time n is the first one in n + 1 .. n + d that holds, and the
\* one at n + d when none of them does. The first is n + 1 when the
\* condition holds there, as it does when it already held at n short of the
\* wrap; otherwise it is due + 1 when that lies within d ms of n
NextPoll(n, d, due) ==
  LET next == AddU32(n, U32(1))
      first == AddU32(due, U32(1))
      wait == SubU32(first, n)
  IN  IF TickFires(next, due)
        THEN next
        ELSE IF /\ due # MaxU32
                /\ wait # ZeroU32
                /\ ~GtU32(wait, U32(d))
               THEN first
               ELSE AddU32(n, U32(d))

\* one evaluation of line 171 and, when it holds, line 173, which reads
\* millis() again e ms later
LoopPoll ==
  /\ pc = "loop"
  /\ polls < MaxPolls
  /\ cycles < MaxCycles
  /\ \E d \in IdleSteps, e \in ReadSkew :
       LET t == NextPoll(now, d, scheduler)
           fires == TickFires(t, scheduler)
       IN  /\ lastPoll' = <<[now |-> t, due |-> scheduler, fired |-> fires,
                             armed |-> armedAt]>>
           /\ polls' = polls + 1
           /\ IF fires
                THEN /\ now' = AddU32(t, U32(e))
                     /\ scheduler' = Rearm(now', scheduler)
                     /\ armedAt' = now'
                     /\ cycles' = cycles + 1
                     /\ calls' = NoCalls
                     /\ outcome' = NoOutcome
                     /\ written' = None
                     /\ payload' = None
                     /\ gpsDone' = None
                     /\ gsmRead' = None
                     /\ logRead' = None
                     /\ pc' = "gps_begin"
                ELSE /\ e = 0
                     /\ now' = t
                     /\ pc' = "loop"
                     /\ UNCHANGED <<scheduler, armedAt, cycles, calls, outcome,
                                    written, payload, gpsDone, gsmRead,
                                    logRead>>
  /\ UNCHANGED <<start, resVars, fed, fixCount, ssAvail, newGpsData, gpsPos,
                 clock>>

\* line 179: if (newGpsData)
LoopIf ==
  /\ pc = "loop_if"
  /\ pc' = IF newGpsData THEN "gsm_powerUp" ELSE "loop"
  /\ UNCHANGED <<timeVars, resVars, obsVars, newGpsData, gpsPos, clock,
                 written, calls, outcome>>

\* line 188 left out
LoopResetKeepsFlag ==
  /\ pc = "loop_reset"
  /\ pc' = "loop"
  /\ UNCHANGED <<timeVars, resVars, obsVars, newGpsData, gpsPos, clock,
                 written, calls, outcome>>

\* line 188: newGpsData = false
LoopReset ==
  /\ pc = "loop_reset"
  /\ newGpsData' = FALSE
  /\ pc' = "loop"
  /\ UNCHANGED <<timeVars, resVars, obsVars, gpsPos, clock, written, calls,
                 outcome>>

\* ------------------------------------------------------------------------
\* processGps()
\* ------------------------------------------------------------------------
\* ss.begin(4800); unsigned long start = millis()
GpsBegin ==
  /\ pc = "gps_begin"
  /\ gpsOpen' = TRUE
  /\ start' = now
  /\ pc' = "gps_check"
  /\ UNCHANGED <<now, scheduler, armedAt, lastPoll, radioOn, logOpen, obsVars,
                 newGpsData, gpsPos, clock, written, calls, outcome>>

\* the loop condition of line 202, for t the value millis() returned
InTime(t, s) == LtU32(SubU32(t, s), U32(GPS_TIMEOUT))

\* line 202: millis() - start < 2000
GpsCheck ==
  /\ pc = "gps_check"
  /\ pc' = IF InTime(now, start) THEN "gps_avail" ELSE "gps_end"
  /\ UNCHANGED <<timeVars, resVars, obsVars, newGpsData, gpsPos, clock,
                 written, calls, outcome>>

\* the loops of lines 202-204 spin while the channel is silent, so the
\* timeout is noticed in the millisecond it elapses: a silence of d ms from
\* time n ends at the timeout at the latest
SilentUntil(n, d, s) ==
  IF ~InTime(n, s) THEN n
  ELSE IF InTime(AddU32(n, U32(d)), s) THEN AddU32(n, U32(d))
  ELSE AddU32(s, U32(GPS_TIMEOUT))

\* line 204: while (ss.available()): either the channel is silent for d ms
\* (or up to the timeout), or characters keep being available for d ms and
\* the last of them is read next. The loop has no exit but a silent poll
\* and does not test the time
GpsAvail ==
  /\ pc = "gps_avail"
  /\ \E d \in GpsSteps, a \in BOOLEAN :
       /\ now' = IF a THEN AddU32(now, U32(d)) ELSE SilentUntil(now, d, start)
       /\ ssAvail' = a
       /\ pc' = IF a THEN "gps_read" ELSE "gps_check"
  /\ UNCHANGED <<scheduler, start, armedAt, lastPoll, resVars, cycles, polls,
                 fed, fixCount, gpsDone, gsmRead, payload, logRead, newGpsData,
                 gpsPos, clock, written, calls, outcome>>

\* lines 206-211 with a return as soon as a sentence validates
GpsReadReturnsOnFix ==
  /\ pc = "gps_read"
  /\ fed < MaxFeed
  /\ fed' = fed + 1
  /\ calls' = Count("encode")
  /\ \E valid \in BOOLEAN :
       /\ fixCount' = IF valid THEN fixCount + 1 ELSE fixCount
       /\ IF valid
            THEN /\ gpsPos' \in Fixes
                 /\ newGpsData' = TRUE
                 /\ outcome' = [outcome EXCEPT !.encode = "ok"]
                 /\ pc' = "gps_end"
            ELSE /\ pc' = "gps_avail"
                 /\ UNCHANGED <<gpsPos, newGpsData, outcome>>
  /\ UNCHANGED <<timeVars, resVars, cycles, polls, ssAvail, gpsDone, gsmRead,
                 payload, logRead, clock, written>>

\* lines 206-211: c = ss.read(); if (gps.encode(c)) newGpsData = true.
\* encode() returns true when c completes a valid sentence, and the parser
\* then holds that sentence's position. fed counts the characters read in
\* the run; a run in which the channel has a further character after
\* MaxFeed of them is followed up to this read and no further
GpsRead ==
  /\ pc = "gps_read"
  /\ fed < MaxFeed
  /\ fed' = fed + 1
  /\ calls' = Count("encode")
  /\ \E valid \in BOOLEAN :
       /\ fixCount' = IF valid THEN fixCount + 1 ELSE fixCount
       /\ IF valid
            THEN /\ gpsPos' \in Fixes
                 /\ newGpsData' = TRUE
                 /\ outcome' = [outcome EXCEPT !.encode = "ok"]
            ELSE UNCHANGED <<gpsPos, newGpsData, outcome>>
  /\ pc' = "gps_avail"
  /\ UNCHANGED <<timeVars, resVars, cycles, polls, ssAvail, gpsDone, gsmRead,
                 payload, logRead, clock, written>>

\* line 214 left out: processGps returns with the channel open
GpsEndLeavesOpen ==
  /\ pc = "gps_end"
  /\ gpsDone' = <<[elapsed |-> SubU32(now, start),
                   validated |-> outcome.encode = "ok",
                   pos |-> gpsPos,
                   chars |-> calls["encode"]]>>
  /\ start' = ZeroU32
  /\ fixCount' = 0
  /\ pc' = "loop_if"
  /\ UNCHANGED <<now, scheduler, armedAt, lastPoll, resVars, cycles, polls,
                 fed, ssAvail, gsmRead, payload, logRead, newGpsData, gpsPos,
                 clock, written, calls, outcome>>

\* line 214: ss.end(); processGps returns
GpsEnd ==
  /\ pc = "gps_end"
  /\ gpsOpen' = FALSE
  /\ gpsDone' = <<[elapsed |-> SubU32(now, start),
                   validated |-> outcome.encode = "ok",
                   pos |-> gpsPos,
                   chars |-> calls["encode"]]>>
  /\ start' = ZeroU32
  /\ fixCount' = 0
  /\ pc' = "loop_if"
  /\ UNCHANGED <<now, scheduler, armedAt, lastPoll, radioOn, logOpen, cycles,
                 polls, fed, ssAvail, gsmRead, payload, logRead, newGpsData,
                 gpsPos, clock, written, calls, outcome>>

\* ------------------------------------------------------------------------
\* processGsm()
\* ------------------------------------------------------------------------
\* line 229 with the result of powerUp ignored
GsmPowerUpIgnoresFailure ==
  /\ pc = "gsm_powerUp"
  /\ calls' = Count("powerUp")
  /\ now' \in After(CallSteps)
  /\ \E ok \in BOOLEAN, on \in BOOLEAN :
       /\ ok => on
       /\ radioOn' = on
       /\ outcome' = [outcome EXCEPT !.powerUp = Result(ok)]
  /\ pc' = "gsm_getClock"
  /\ UNCHANGED <<schedVars, gpsOpen, logOpen, obsVars, newGpsData, gpsPos,
                 clock, written>>

\* line 229: if (wismo.powerUp())
GsmPowerUp ==
  /\ pc = "gsm_powerUp"
  /\ calls' = Count("powerUp")
  /\ now' \in After(CallSteps)
  /\ \E ok \in BOOLEAN, on \in BOOLEAN :
       /\ ok => on
       /\ radioOn' = on
       /\ outcome' = [outcome EXCEPT !.powerUp = Result(ok)]
       /\ pc' = IF ok THEN "gsm_getClock" ELSE "gsm_shutdown"
  /\ UNCHANGED <<schedVars, gpsOpen, logOpen, obsVars, newGpsData, gpsPos,
                 clock, written>>

\* line 235: if (wismo.getClock(clock))
GsmGetClock ==
  /\ pc = "gsm_getClock"
  /\ calls' = Count("getClock")
  /\ now' \in After(CallSteps)
  /\ \E ok \in BOOLEAN :
       /\ clock' = IF ok THEN <<"cycle", cycles>> ELSE clock
       /\ outcome' = [outcome EXCEPT !.getClock = Result(ok)]
  /\ pc' = "gsm_format"
  /\ UNCHANGED <<schedVars, resVars, obsVars, newGpsData, gpsPos, written>>

\* sizes of the two character buffers and the arguments of dtostrf
COORD_SIZE == 8
DATA_SIZE == 32
DTOSTRF_WIDTH == 2
DTOSTRF_PREC == 4

\* bits of the significand stored in a 32-bit float
FLOAT_MANT_BITS == 23

RECURSIVE Pow(_, _)
Pow(b, k) == IF k = 0 THEN 1 ELSE b * Pow(b, k - 1)

Abs(v) == IF v < 0 THEN -v ELSE v

\* the character of the decimal digit d
Digit(d) == <<"0", "1", "2", "3", "4", "5", "6", "7", "8", "9">>[d + 1]

\* the decimal digits of the natural number n, no leading zero
RECURSIVE Decimal(_)
Decimal(n) ==
  IF n < 10 THEN <<Digit(n)>> ELSE Append(Decimal(n \div 10), Digit(n % 10))

\* the last k decimal digits of n, leading zeros kept
RECURSIVE Fraction(_, _)
Fraction(n, k) ==
  IF k = 0 THEN <<>> ELSE Append(Fraction(n \div 10, k - 1), Digit(n % 10))

\* s right-justified in a field of at least w characters
RECURSIVE PadLeft(_, _)
PadLeft(s, w) == IF Len(s) >= w THEN s ELSE PadLeft(<<" ">> \o s, w)

\* the characters dtostrf(v, w, DTOSTRF_PREC, buf) stores before the
\* terminator, v in 1e-4 degree: sign, integer digits, point, 4 decimals
Render(v, w) ==
  PadLeft((IF v < 0 THEN <<"-">> ELSE <<>>)
            \o Decimal(Abs(v) \div Pow(10, DTOSTRF_PREC))
            \o <<".">>
            \o Fraction(Abs(v) % Pow(10, DTOSTRF_PREC), DTOSTRF_PREC),
          w)

\* lines 251, 256 with a minimum width of 12
DtostrfWide(v) == Render(v, 12)

\* lines 251, 256: dtostrf(flat, 2, 4, coordinate)
Dtostrf(v) == Render(v, DTOSTRF_WIDTH)

\* the bytes dtostrf writes past the end of coordinate when it stores s and
\* its terminator
Overrun(s) ==
  IF Len(s) + 1 > COORD_SIZE THEN Len(s) + 1 - COORD_SIZE ELSE 0

\* A write past the end of coordinate is undefined. The frame of processGsm
\* holds flat, flon, age and coordinate, and two saved registers lie
\* between the frame and the return address, so the one or two bytes of an
\* overrun land in the low-order bytes of a neighbouring local or in a
\* saved register. flat has been passed by value and age is never read;
\* what can show is flon, read at line 256: its n low-order bytes, the low
\* 8 n bits of the significand, are replaced, which moves the value by less
\* than |v| / 2^(23 - 8 n). The values kept are v itself and the two ends
\* of that range.
Clobbered(v, n) ==
  IF n = 0
    THEN {v}
    ELSE LET bits == IF 8 * n < FLOAT_MANT_BITS THEN 8 * n
                     ELSE FLOAT_MANT_BITS
             d == Abs(v) \div Pow(2, FLOAT_MANT_BITS - bits) + 1
         IN  {v, v - d, v + d}

\* lines 249-260: the characters strcpy and strcat store in data before the
\* terminator, and the two renderings they were built from
Payload(lat, lon) ==
  [lat |-> lat,
   lon |-> lon,
   data |-> <<"0">> \o <<",">> \o lat \o <<"\r", "\n">>
              \o <<"1">> \o <<",">> \o lon \o <<"\r", "\n">>]

\* lines 243-260 with the parser's position cleared once it is read
GsmFormatConsumesFix ==
  /\ pc = "gsm_format"
  /\ calls' = Count("position")
  /\ gsmRead' = gpsPos
  /\ \E flon \in Clobbered(gpsPos[2], Overrun(Dtostrf(gpsPos[1]))) :
       payload' = <<Payload(Dtostrf(gpsPos[1]), Dtostrf(flon))>>
  /\ gpsPos' = NoFix
  /\ pc' = "gsm_openGPRS"
  /\ UNCHANGED <<timeVars, resVars, cycles, polls, fed, fixCount, ssAvail,
                 gpsDone, logRead, newGpsData, clock, written, outcome>>

\* lines 243-260: gps.f_get_position(&flat, &flon, &age) and the payload
GsmFormat ==
  /\ pc = "gsm_format"
  /\ calls' = Count("position")
  /\ gsmRead' = gpsPos
  /\ \E flon \in Clobbered(gpsPos[2], Overrun(Dtostrf(gpsPos[1]))) :
       payload' = <<Payload(Dtostrf(gpsPos[1]), Dtostrf(flon))>>
  /\ pc' = "gsm_openGPRS"
  /\ UNCHANGED <<timeVars, resVars, cycles, polls, fed, fixCount, ssAvail,
                 gpsDone, logRead, newGpsData, gpsPos, clock, written,
                 outcome>>

\* line 263 with a return from processGsm when the attach fails
GsmOpenGPRSEarlyReturn ==
  /\ pc = "gsm_openGPRS"
  /\ calls' = Count("openGPRS")
  /\ now' \in After(CallSteps)
  /\ \E ok \in BOOLEAN :
       /\ outcome' = [outcome EXCEPT !.openGPRS = Result(ok)]
       /\ pc' = IF ok THEN "gsm_putHttp" ELSE "log_open"
  /\ UNCHANGED <<schedVars, resVars, obsVars, newGpsData, gpsPos, clock,
                 written>>

\* line 263 with the result of openGPRS ignored
GsmOpenGPRSIgnoresResult ==
  /\ pc = "gsm_openGPRS"
  /\ calls' = Count("openGPRS")
  /\ now' \in After(CallSteps)
  /\ \E ok \in BOOLEAN :
       outcome' = [outcome EXCEPT !.openGPRS = Result(ok)]
  /\ pc' = "gsm_putHttp"
  /\ UNCHANGED <<schedVars, resVars, obsVars, newGpsData, gpsPos, clock,
                 written>>

\* line 263: if (wismo.openGPRS(apn, username, password))
GsmOpenGPRS ==
  /\ pc = "gsm_openGPRS"
  /\ calls' = Count("openGPRS")
  /\ now' \in After(CallSteps)
  /\ \E ok \in BOOLEAN :
       /\ outcome' = [outcome EXCEPT !.openGPRS = Result(ok)]
       /\ pc' = IF ok THEN "gsm_putHttp" ELSE "gsm_shutdown"
  /\ UNCHANGED <<schedVars, resVars, obsVars, newGpsData, gpsPos, clock,
                 written>>

\* line 271 with closeGPRS called only after an upload that succeeded
GsmPutHttpSkipsDetachOnFailure ==
  /\ pc = "gsm_putHttp"
  /\ calls' = Count("putHttp")
  /\ now' \in After(CallSteps)
  /\ \E ok \in BOOLEAN :
       /\ outcome' = [outcome EXCEPT !.putHttp = Result(ok)]
       /\ pc' = IF ok THEN "gsm_closeGPRS" ELSE "gsm_shutdown"
  /\ UNCHANGED <<schedVars, resVars, obsVars, newGpsData, gpsPos, clock,
                 written>>

\* line 271: if (wismo.putHttp(...))
GsmPutHttp ==
  /\ pc = "gsm_putHttp"
  /\ calls' = Count("putHttp")
  /\ now' \in After(CallSteps)
  /\ \E ok \in BOOLEAN :
       outcome' = [outcome EXCEPT !.putHttp = Result(ok)]
  /\ pc' = "gsm_closeGPRS"
  /\ UNCHANGED <<schedVars, resVars, obsVars, newGpsData, gpsPos, clock,
                 written>>

\* line 286: if (wismo.closeGPRS())
GsmCloseGPRS ==
  /\ pc = "gsm_closeGPRS"
  /\ calls' = Count("closeGPRS")
  /\ now' \in After(CallSteps)
  /\ \E ok \in BOOLEAN :
       outcome' = [outcome EXCEPT !.closeGPRS = Result(ok)]
  /\ pc' = "gsm_shutdown"
  /\ UNCHANGED <<schedVars, resVars, obsVars, newGpsData, gpsPos, clock,
                 written>>

\* line 300: wismo.shutdown(); processGsm returns, coordinate goes out of
\* scope and data is not read again before line 249 overwrites it
GsmShutdown ==
  /\ pc = "gsm_shutdown"
  /\ calls' = Count("shutdown")
  /\ now' \in After(CallSteps)
  /\ radioOn' = FALSE
  /\ payload' = None
  /\ pc' = "log_open"
  /\ UNCHANGED <<schedVars, gpsOpen, logOpen, cycles, polls, fed, fixCount,
                 ssAvail, gpsDone, gsmRead, logRead, newGpsData, gpsPos, clock,
                 written, outcome>>

\* ------------------------------------------------------------------------
\* processLog()
\* ------------------------------------------------------------------------
\* Print::print(double, 2) computes in the 32-bit binary float that double
\* is on the AVR. A float >= 0 is <<m, e>>, standing for m * 2^e, with
\* m = 0 or 2^23 <= m < 2^24; every operation rounds to nearest, ties to
\* the even significand.
FloatOne == Pow(2, FLOAT_MANT_BITS)

\* the number of low-order bits M has beyond a 24-bit significand
RECURSIVE Excess(_)
Excess(M) == IF M < 2 * FloatOne THEN 0 ELSE 1 + Excess(M \div 2)

\* the float nearest to M * 2^e, or to a value just above it when sticky
FNorm(M, e, sticky) ==
  IF M = 0
    THEN <<0, 0>>
    ELSE LET n == Excess(M)
             q == M \div Pow(2, n)
             low == M % Pow(2, n)
             up == /\ n > 0
                   /\ \/ 2 * low > Pow(2, n)
                      \/ 2 * low = Pow(2, n) /\ (sticky \/ q % 2 = 1)
             r == IF up THEN q + 1 ELSE q
         IN  IF r = 2 * FloatOne THEN <<FloatOne, e + n + 1>>
             ELSE <<r, e + n>>

\* M * 2^e for 0 < M < 2^24, exactly, with the significand shifted up
RECURSIVE FExact(_, _)
FExact(M, e) ==
  IF M = 0 THEN <<0, 0>>
  ELSE IF M < FloatOne THEN FExact(2 * M, e - 1)
  ELSE <<M, e>>

\* the float nearest to (q + r / d) * 2^e, by long division: q < 2^24,
\* 0 <= r < d
RECURSIVE FDivide(_, _, _, _)
FDivide(q, r, d, e) ==
  IF q = 0 /\ r = 0 THEN <<0, 0>>
  ELSE IF q < FloatOne
    THEN FDivide(2 * q + (IF 2 * r >= d THEN 1 ELSE 0), (2 * r) % d, d, e - 1)
  ELSE LET up == 2 * r > d \/ (2 * r = d /\ q % 2 = 1)
           m == IF up THEN q + 1 ELSE q
       IN  IF m = 2 * FloatOne THEN <<FloatOne, e + 1>> ELSE <<m, e>>

\* the float the parser returns for a coordinate of a / 10^4 degrees
ToFloat(a) ==
  FDivide(a \div Pow(10, DTOSTRF_PREC), a % Pow(10, DTOSTRF_PREC),
          Pow(10, DTOSTRF_PREC), 0)

\* x / 10.0
FDiv10(x) == FDivide(x[1] \div 10, x[1] % 10, 10, x[2])

\* x * 10.0
FMul10(x) == FNorm(x[1] * 10, x[2], FALSE)

\* x + y: the smaller operand is aligned with three guard bits, the bits
\* shifted out are kept as sticky
FAdd(x, y) ==
  IF x[1] = 0 THEN y
  ELSE IF y[1] = 0 THEN x
  ELSE LET hi == IF x[2] >= y[2] THEN x ELSE y
           lo == IF x[2] >= y[2] THEN y ELSE x
           d == hi[2] - lo[2]
           far == d > FLOAT_MANT_BITS + 4
           part == IF far THEN 0 ELSE (lo[1] * 8) \div Pow(2, d)
           lost == far \/ (lo[1] * 8) % Pow(2, d) # 0
       IN  FNorm(hi[1] * 8 + part, hi[2] - 3, lost)

\* (unsigned long) x, for x < 2^24
FTrunc(x) ==
  IF x[1] = 0 \/ -x[2] > FLOAT_MANT_BITS THEN 0
  ELSE IF x[2] >= 0 THEN x[1] * Pow(2, x[2])
  ELSE x[1] \div Pow(2, -x[2])

\* x - (double) FTrunc(x), which is exact
FFrac(x) ==
  IF x[1] = 0 \/ x[2] >= 0 THEN <<0, 0>>
  ELSE IF -x[2] > FLOAT_MANT_BITS THEN x
  ELSE FExact(x[1] % Pow(2, -x[2]), x[2])

\* double rounding = 0.5; for (i = 0; i < digits; ++i) rounding /= 10.0
RECURSIVE Rounding(_)
Rounding(digits) ==
  IF digits = 0 THEN <<FloatOne, -(FLOAT_MANT_BITS + 1)>>
  ELSE FDiv10(Rounding(digits - 1))

\* the digit loop: remainder *= 10.0; toPrint = int(remainder);
\* remainder -= toPrint; acc is the number printed so far
RECURSIVE FDigits(_, _, _)
FDigits(remainder, digits, acc) ==
  IF digits = 0 THEN acc
  ELSE LET t == FMul10(remainder)
       IN  FDigits(FFrac(t), digits - 1, 10 * acc + FTrunc(t))

\* Print::printFloat(number, digits), for number the float of v / 10^4: the
\* number printed, in units of 10^-digits, with its sign
PrintFloat(v, digits) ==
  LET number == FAdd(ToFloat(Abs(v)), Rounding(digits))
      mag == FDigits(FFrac(number), digits, FTrunc(number))
  IN  IF v < 0 THEN -mag ELSE mag

\* logFile.print(flat, 2): v in 1e-4 degree, result in 1e-2 degree
Print2(v) == PrintFloat(v, 2)

\* lines 322, 325 without the test for the sentinel
NormalizeNever(v) == v

\* lines 322, 325: flat == TinyGPS::GPS_INVALID_F_ANGLE ? 0.0 : flat
Normalize(v) == IF v = GPS_INVALID_F_ANGLE THEN 0 ELSE v

\* lines 306-309 with the test of logFile left out
LogOpenIgnoresFailure ==
  /\ pc = "log_open"
  /\ calls' = Count("sdOpen")
  /\ now' \in After(CallSteps)
  /\ \E ok \in BOOLEAN :
       /\ logOpen' = ok
       /\ outcome' = [outcome EXCEPT !.sdOpen = Result(ok)]
  /\ pc' = "log_write"
  /\ UNCHANGED <<schedVars, gpsOpen, radioOn, obsVars, newGpsData, gpsPos,
                 clock, written>>

\* lines 306-309: logFile = SD.open("log.txt", FILE_WRITE); if (logFile)
LogOpen ==
  /\ pc = "log_open"
  /\ calls' = Count("sdOpen")
  /\ now' \in After(CallSteps)
  /\ \E ok \in BOOLEAN :
       /\ logOpen' = ok
       /\ outcome' = [outcome EXCEPT !.sdOpen = Result(ok)]
       /\ pc' = IF ok THEN "log_write" ELSE "loop_reset"
  /\ UNCHANGED <<schedVars, gpsOpen, radioOn, obsVars, newGpsData, gpsPos,
                 clock, written>>

\* lines 315-325: read the position and print clock, latitude, longitude
LogWrite ==
  /\ pc = "log_write"
  /\ calls' = Count("logPrint")
  /\ now' \in After(CallSteps)
  /\ logRead' = gpsPos
  /\ written' = <<[clock |-> clock,
                   lat |-> Print2(Normalize(gpsPos[1])),
                   lon |-> Print2(Normalize(gpsPos[2]))]>>
  /\ pc' = "log_close"
  /\ UNCHANGED <<schedVars, resVars, cycles, polls, fed, fixCount, ssAvail,
                 gpsDone, gsmRead, payload, newGpsData, gpsPos, clock,
                 outcome>>

\* line 327: logFile.close()
LogClose ==
  /\ pc = "log_close"
  /\ calls' = Count("logClose")
  /\ now' \in After(CallSteps)
  /\ logOpen' = FALSE
  /\ pc' = "loop_reset"
  /\ UNCHANGED <<schedVars, gpsOpen, radioOn, obsVars, newGpsData, gpsPos,
                 clock, written, outcome>>

\* ------------------------------------------------------------------------
\* the sketch
\* ------------------------------------------------------------------------
Next ==
  \/ SetupSdBegin
  \/ SetupPowerUp
  \/ SetupSetClock
  \/ SetupGetClock
  \/ SetupShutdown
  \/ LoopPoll
  \/ LoopIf
  \/ LoopReset
  \/ GpsBegin
  \/ GpsCheck
  \/ GpsAvail
  \/ GpsRead
  \/ GpsEnd
  \/ GsmPowerUp
  \/ GsmGetClock
  \/ GsmFormat
  \/ GsmOpenGPRS
  \/ GsmPutHttp
  \/ GsmCloseGPRS
  \/ GsmShutdown
  \/ LogOpen
  \/ LogWrite
  \/ LogClose

Spec == Init /\ [][Next]_vars

TypeOK ==
  /\ pc \in {"setup", "setup_powerUp", "setup_setClock", "setup_getClock",
             "setup_shutdown", "loop", "loop_if", "loop_reset", "gps_begin",
             "gps_check", "gps_avail", "gps_read", "gps_end", "gsm_powerUp",
             "gsm_getClock", "gsm_format", "gsm_openGPRS", "gsm_putHttp",
             "gsm_closeGPRS", "gsm_shutdown", "log_open", "log_write",
             "log_close"}
  /\ now \in (0 .. Limb - 1) \X (0 .. Limb - 1)
  /\ scheduler \in (0 .. Limb - 1) \X (0 .. Limb - 1)
  /\ newGpsData \in BOOLEAN
  /\ gpsOpen \in BOOLEAN /\ radioOn \in BOOLEAN /\ logOpen \in BOOLEAN
  /\ gpsPos \in Fixes \cup {NoFix}
  /\ cycles \in 0 .. MaxCycles
  /\ polls \in 0 .. MaxPolls
  /\ fed \in 0 .. MaxFeed
  /\ fixCount \in 0 .. MaxFeed

\* ------------------------------------------------------------------------
\* properties
\* ------------------------------------------------------------------------
InGsm == pc \in {"gsm_powerUp", "gsm_getClock", "gsm_format", "gsm_openGPRS",
                 "gsm_putHttp", "gsm_closeGPRS", "gsm_shutdown"}

InLog == pc \in {"log_open", "log_write", "log_close"}

\* processGps has returned in the current cycle
GpsReturned == gpsDone # None

\* C1: in a cycle whose processGps returned without a validated sentence,
\* processGsm and processLog do not run: up to the next trigger the radio
\* is not powered up, no attach or upload is made, and log.txt is neither
\* opened nor written
C1_NoFixSkipsUplinkAndLog ==
  (GpsReturned /\ ~gpsDone[1].validated) =>
    /\ ~InGsm /\ ~InLog /\ pc # "loop_reset"
    /\ calls["powerUp"] = 0
    /\ calls["openGPRS"] = 0
    /\ calls["putHttp"] = 0
    /\ calls["sdOpen"] = 0
    /\ calls["logPrint"] = 0
    /\ written = None

\* a cycle without a fix has ended, after an earlier cycle that had one
C1_Witness ==
  /\ pc = "loop"
  /\ cycles = 2
  /\ GpsReturned /\ ~gpsDone[1].validated
  /\ gpsPos # NoFix

\* C2: when processGsm returns the radio is off, whatever the outcomes of
\* powerUp, getClock, openGPRS, putHttp and closeGPRS were
C2_RadioOffAfterGsm ==
  (calls["powerUp"] > 0 /\ ~InGsm) => ~radioOn

\* processGsm has returned after an upload and a detach that both failed
C2_Witness ==
  /\ pc = "log_open"
  /\ outcome.powerUp = "ok"
  /\ outcome.putHttp = "fail"
  /\ outcome.closeGPRS = "fail"

\* C3 as claimed: processGps returns no later than 2000 ms after it started
C3_ReturnsWithinTimeout ==
  GpsReturned => ~GtU32(gpsDone[1].elapsed, U32(GPS_TIMEOUT))

\* C4 as claimed: the trigger fires if and only if now >= scheduler
C4_FiresIffNowGeDue ==
  lastPoll # None =>
    (lastPoll[1].fired <=> GeU32(lastPoll[1].now, lastPoll[1].due))

\* C4 as amended: the trigger fires if and only if now > scheduler (unsigned
\* comparison); when now = scheduler it does not fire
C4_FiresIffNowGtDue ==
  lastPoll # None =>
    /\ lastPoll[1].fired <=> GtU32(lastPoll[1].now, lastPoll[1].due)
    /\ lastPoll[1].now = lastPoll[1].due => ~lastPoll[1].fired

\* line 171 was evaluated with millis() equal to the deadline
C4_Witness ==
  /\ lastPoll # None
  /\ lastPoll[1].now = lastPoll[1].due
  /\ pc = "loop"

\* C5: at most one of the GPS channel, the radio and the log file is open
C5_AtMostOneOpen ==
  /\ ~(gpsOpen /\ radioOn)
  /\ ~(gpsOpen /\ logOpen)
  /\ ~(radioOn /\ logOpen)

\* the log file is open in a cycle that had the GPS channel open and the
\* radio powered up
C5_Witness ==
  /\ logOpen
  /\ outcome.powerUp = "ok"
  /\ GpsReturned

\* C6: in a cycle with a fix, from the return of processGps on the parser
\* is fed no character and its position does not change, and processGsm
\* and processLog both read that position
C6_SameFixForUplinkAndLog ==
  (GpsReturned /\ gpsDone[1].validated) =>
    /\ gpsPos = gpsDone[1].pos
    /\ calls["encode"] = gpsDone[1].chars
    /\ gsmRead # None => gsmRead = gpsDone[1].pos
    /\ logRead # None => logRead = gpsDone[1].pos
    /\ (gsmRead # None /\ logRead # None) => logRead = gsmRead

\* processLog has read the position in a cycle where processGsm read it
C6_Witness ==
  /\ pc = "loop_reset"
  /\ gsmRead # None
  /\ logRead # None

\* C7: when powerUp succeeds and openGPRS fails, no upload is attempted,
\* the radio is off when processGsm has returned, and processLog runs
C7_AttachFailure ==
  (outcome.powerUp = "ok" /\ outcome.openGPRS = "fail") =>
    /\ calls["putHttp"] = 0
    /\ pc \in {"gsm_shutdown", "log_open", "log_write", "log_close",
               "loop_reset", "loop"}
    /\ pc # "gsm_shutdown" => ~radioOn /\ calls["shutdown"] = 1
    /\ pc \in {"loop_reset", "loop"} => calls["sdOpen"] = 1

\* processLog has run and written in a cycle whose attach failed
C7_Witness ==
  /\ pc = "loop_reset"
  /\ outcome.openGPRS = "fail"
  /\ calls["logPrint"] = 1

\* C8: when processLog returns the log file is closed; when SD.open failed
\* nothing was printed and the file was not closed
C8_LogClosedOnReturn ==
  /\ (calls["sdOpen"] > 0 /\ ~InLog) => ~logOpen
  /\ outcome.sdOpen = "fail" =>
       /\ calls["logPrint"] = 0
       /\ calls["logClose"] = 0
       /\ written = None
       /\ ~InLog

\* processLog has returned after SD.open failed
C8_Witness ==
  /\ pc = "loop_reset"
  /\ outcome.sdOpen = "fail"

\* some value of the 32-bit counter satisfies line 171 for this deadline
SomeTimeFires(due) == \E hi \in {0, Limb - 1} : TickFires(<<hi, Limb - 1>>, due)

\* C9: whatever failed in a cycle, the cycle ends in loop() with the
\* deadline re-armed one interval after the trigger, and the trigger fires
\* again as millis() advances
C9_CycleEndsAndRefires ==
  (pc = "loop" /\ cycles > 0) =>
    /\ ~gpsOpen /\ ~radioOn /\ ~logOpen
    /\ armedAt # None
    /\ scheduler = AddU32(armedAt, U32(LOG_INTERVAL))
    /\ SomeTimeFires(scheduler)

\* C10: across the wrap of millis(), a trigger fires only when at least
\* LOG_INTERVAL ms have passed since the deadline was last set
C10_NoEarlyTrigger ==
  (lastPoll # None /\ lastPoll[1].fired /\ lastPoll[1].armed # None) =>
    GeU32(SubU32(lastPoll[1].now, lastPoll[1].armed), U32(LOG_INTERVAL))

\* the last evaluation of line 171 fired the trigger of the current cycle
Fired == lastPoll # None /\ lastPoll[1].fired

\* C11 as claimed: when the trigger fires, the new deadline is the previous
\* deadline plus LOG_INTERVAL, whatever millis() was
C11_DeadlineAdvancesByInterval ==
  (Fired /\ lastPoll[1].armed # None) =>
    scheduler = AddU32(lastPoll[1].due, U32(LOG_INTERVAL))

\* C11 as amended: when the trigger fires, the new deadline is the value of
\* millis() read at line 173 plus LOG_INTERVAL modulo 2^32; the previous
\* deadline does not enter it. That value of millis() is read after the one
\* line 171 found past the previous deadline
C11_DeadlineIsNowPlusInterval ==
  Fired =>
    /\ scheduler = AddU32(armedAt, U32(LOG_INTERVAL))
    /\ SubU32(armedAt, lastPoll[1].now) \in {U32(e) : e \in ReadSkew}
    /\ GtU32(lastPoll[1].now, lastPoll[1].due)

\* the trigger has fired a second time, from a deadline set at line 173
C11_Witness ==
  /\ Fired
  /\ cycles = 2
  /\ pc = "gps_begin"
  /\ lastPoll[1].armed # None

InGps == pc \in {"gps_begin", "gps_check", "gps_avail", "gps_read", "gps_end"}

\* C12 as claimed: once the parser has validated a sentence, processGps
\* polls and feeds no further character and returns without waiting for
\* the timeout, so at most one sentence validates in a cycle
C12_StopsAtFirstFix ==
  /\ outcome.encode = "ok" => pc \notin {"gps_check", "gps_avail", "gps_read"}
  /\ fixCount <= 1
  /\ (GpsReturned /\ gpsDone[1].validated) =>
       LtU32(gpsDone[1].elapsed, U32(GPS_TIMEOUT))

\* C12 as amended: a validated sentence sets newGpsData and does not end
\* processGps: the flag stays set, the characters that follow are fed to
\* the parser, and processGps returns only once the 2000 ms have passed;
\* the cycle uses the position of the last sentence validated
C12_FixDoesNotEndAcquisition ==
  /\ (InGps /\ outcome.encode = "ok") => newGpsData
  /\ InGps => ((outcome.encode = "ok") <=> (fixCount >= 1))
  /\ fixCount <= calls["encode"]
  /\ (GpsReturned /\ gpsDone[1].validated) =>
       /\ GeU32(gpsDone[1].elapsed, U32(GPS_TIMEOUT))
       /\ gpsDone[1].pos \in Fixes

\* processGps is about to return, the timeout over, after two sentences
\* validated in one call
C12_Witness ==
  /\ pc = "gps_end"
  /\ fixCount = 2
  /\ GeU32(SubU32(now, start), U32(GPS_TIMEOUT))

\* C13: the GPS serial channel is open only between ss.begin and ss.end
\* inside processGps; once processGps has returned, with or without a fix,
\* the channel is closed, and it is closed whenever processGsm runs
C13_GpsChannelClosedOnReturn ==
  /\ gpsOpen => pc \in {"gps_check", "gps_avail", "gps_read", "gps_end"}
  /\ GpsReturned => ~gpsOpen
  /\ InGsm => (GpsReturned /\ ~gpsOpen)

\* the Uplink starts in the second cycle, after a fix that was acquired
\* later than the timeout
C13_Witness ==
  /\ pc = "gsm_powerUp"
  /\ cycles = 2
  /\ GtU32(gpsDone[1].elapsed, U32(GPS_TIMEOUT))

\* C14: in a cycle whose openGPRS succeeded, putHttp is called exactly once
\* and closeGPRS exactly once after it, whatever putHttp returned; powerUp,
\* openGPRS, putHttp and closeGPRS are each called at most once in a cycle
C14_OneUploadThenOneDetach ==
  /\ \A o \in {"powerUp", "openGPRS", "putHttp", "closeGPRS"} : calls[o] <= 1
  /\ (outcome.openGPRS = "ok" /\ pc \notin {"gsm_putHttp", "gsm_closeGPRS"}) =>
       calls["putHttp"] = 1 /\ calls["closeGPRS"] = 1
  /\ pc = "gsm_closeGPRS" => calls["putHttp"] = 1 /\ calls["closeGPRS"] = 0
  /\ calls["closeGPRS"] = 1 => outcome.putHttp # "none"
  /\ calls["putHttp"] = 1 => outcome.openGPRS = "ok"

\* processGsm has returned after an upload that failed and the detach that
\* followed it
C14_Witness ==
  /\ pc = "log_open"
  /\ outcome.openGPRS = "ok"
  /\ outcome.putHttp = "fail"
  /\ calls["closeGPRS"] = 1

\* C15: in a cycle whose powerUp failed, getClock, the payload formatting,
\* openGPRS, putHttp and closeGPRS are not executed, and the radio is off
\* when processGsm returns
C15_PowerUpFailure ==
  outcome.powerUp = "fail" =>
    /\ \A o \in {"getClock", "position", "openGPRS", "putHttp", "closeGPRS"} :
         calls[o] = 0
    /\ gsmRead = None
    /\ payload = None
    /\ pc # "gsm_shutdown" => (~radioOn /\ calls["shutdown"] = 1)

\* processGsm has returned, through shutdown, in a cycle whose powerUp failed
C15_Witness ==
  /\ pc = "log_open"
  /\ outcome.powerUp = "fail"
  /\ calls["shutdown"] = 1

\* the hundredths w printed for the coordinate v (1e-4 degree) are v rounded
PrintedAsItself(w, v) == 100 * w - v \in -50 .. 50

\* C16: in the record processLog prints, a coordinate that is the sentinel
\* is printed as 0.00 and any other coordinate is printed as its own value
\* to two decimals, the latitude and the longitude each on its own; once
\* log.txt is open the record is printed whatever the coordinates are
C16_SentinelLoggedAsZero ==
  /\ written # None =>
       /\ logRead # None
       /\ logRead[1] = GPS_INVALID_F_ANGLE => written[1].lat = 0
       /\ logRead[1] # GPS_INVALID_F_ANGLE =>
            PrintedAsItself(written[1].lat, logRead[1])
       /\ logRead[2] = GPS_INVALID_F_ANGLE => written[1].lon = 0
       /\ logRead[2] # GPS_INVALID_F_ANGLE =>
            PrintedAsItself(written[1].lon, logRead[2])
  /\ (outcome.sdOpen = "ok" /\ pc # "log_write") =>
       (written # None /\ calls["logPrint"] = 1)

\* a record is printed for a fix whose latitude is the sentinel and whose
\* longitude is not
C16_Witness ==
  /\ written # None
  /\ logRead[1] = GPS_INVALID_F_ANGLE
  /\ logRead[2] = -1800000
  /\ written[1].lat = 0
  /\ written[1].lon = -18000

\* C17 as claimed: the clock printed in the record of a cycle was not read
\* from the radio in setup() or in an earlier cycle's processGsm
C17_TimestampFromThisCycle ==
  written # None =>
    /\ written[1].clock # <<"setup">>
    /\ \A k \in 1 .. MaxCycles + 1 :
         written[1].clock = <<"cycle", k>> => k = cycles

\* C18: the characters processGsm stores in data, with the terminator, are
\* at most the 32 bytes of data: stream name, comma, latitude, CR LF,
\* stream name, comma, longitude, CR LF, for every position read
C18_PayloadFitsData ==
  payload # None =>
    /\ Len(payload[1].data) + 1 <= DATA_SIZE
    /\ Len(payload[1].data) = Len(payload[1].lat) + Len(payload[1].lon) + 8
    /\ payload[1].lat = Dtostrf(gsmRead[1])
    /\ SubSeq(payload[1].data, 1, 2) = <<"0", ",">>

\* the longest payload: the latitude is the sentinel and the longitude is
\* -180, nine characters each
C18_Witness ==
  /\ payload # None
  /\ gsmRead = <<GPS_INVALID_F_ANGLE, -1800000>>
  /\ Len(payload[1].lat) = 9
  /\ Len(payload[1].lon) = 9
  /\ Len(payload[1].data) + 1 = 27

\* C19 as claimed: each coordinate rendered by dtostrf, with its terminator,
\* fits in the 8 bytes of coordinate
C19_CoordinateFitsScratch ==
  payload # None =>
    /\ Len(payload[1].lat) + 1 <= COORD_SIZE
    /\ Len(payload[1].lon) + 1 <= COORD_SIZE

\* C20 as claimed: whatever path setup() took, line 166 has set the deadline
\* before loop() evaluates line 171 for the first time, and no trigger fires
\* on a deadline that was never set
C20_ArmedOnEveryStartupPath ==
  /\ pc = "loop" => armedAt # None
  /\ lastPoll # None => lastPoll[1].armed # None

====
